---- MODULE Spec2Model ----
(***************************************************************************)
(* Model of the theme-preference store of the portfolio application        *)
(* (src/contexts/ThemeContext.tsx): the ThemeProvider component, its three *)
(* effects, the operations it exposes through the context, the two         *)
(* localStorage keys it persists to and the prefers-color-scheme media     *)
(* query it listens to.                                                    *)
(*                                                                         *)
(* Scheduling.  toggleTheme, setTheme and resetToSystemPreference run in   *)
(* discrete event handlers, and the media query's "change" event is a      *)
(* discrete event as well: React renders their state updates and runs the  *)
(* effects of that render before the browser dispatches another event, so  *)
(* each is one atomic action (handler, render, effect cleanup, effects).   *)
(* The first render of the provider is different: its effects run in a     *)
(* later task than the render, and the state updates the initialize effect *)
(* queues are rendered in a later task again.  The variable phase is the   *)
(* provider's position in that sequence.                                   *)
(*                                                                         *)
(* The ErrorBoundary of src/components/ErrorBoundary.tsx wraps the         *)
(* provider (src/App.tsx): an error thrown below it unmounts the provider  *)
(* and shows the fallback.  The contact form (pages/Contact) is modelled   *)
(* with its own specification, SpecContact: its state does not interact    *)
(* with the theme store.                                                   *)
(* So are the scroll handlers of Navbar and ScrollProgress (SpecScroll)    *)
(* and the fetch effect of GitHubActivity (SpecGitHub).  SpecConsumer adds *)
(* components that call useTheme() to the theme store.                     *)
(***************************************************************************)
EXTENDS Naturals, Sequences, FiniteSets

\* ---------------------------------------------------------------- bounds
\* number of most recent operations kept in the history variable log
LogLen == 2

\* number of contact-form requests sent in one behaviour
MaxSubmissions == 3

\* number of throttled scroll events counted by the history variable
MaxThrottled == 2

\* number of calls of fetchGitHubData in one behaviour
MaxFetches == 3

\* ------------------------------------------------------------- constants
THEME_STORAGE_KEY == "portfolio-theme"
SYSTEM_PREFERENCE_KEY == "portfolio-use-system"

\* type Theme = 'light' | 'dark'
Theme == {"light", "dark"}

\* localStorage.getItem returns null for a key that is absent
null == "<null>"

\* strings the theme key can hold when the application starts: absent, the
\* two values the application writes, the empty string, any other string
StoredThemeValues == {null, "light", "dark", "", "blue"}

\* strings the use-system key can hold when the application starts
StoredFlagValues == {null, "true", "false", "yes"}

\* how the browser answers localStorage calls: "ok"; "quota": setItem throws
\* (QuotaExceededError) and reads work; "denied": every access throws
\* (SecurityError, storage disabled)
StorageModes == {"ok", "quota", "denied"}

VARIABLES
  phase,               \* "unmounted" | "rendered" | "effects" | "ready"
  theme,               \* useState<Theme>('light')
  isSystemPreference,  \* useState(true)
  isInitialized,       \* useState(false)
  pending,             \* state updates queued by the initialize effect
  localStorage,        \* the two persisted keys
  storageMode,         \* see StorageModes
  matches,             \* matchMedia('(prefers-color-scheme: dark)').matches
  listeners,           \* number of handleChange listeners on the media query
  dataTheme,           \* data-theme attribute of document.documentElement
  lastError,           \* operation whose call threw, null when none did
  log,                 \* history: the last LogLen operations
  \* ErrorBoundary
  hasError,            \* state.hasError
  error,               \* state.error: null or the error caught
  fallback,            \* whether props.fallback is given
  shown,               \* what the last render() returned
  \* Contact
  status,              \* useState<FormStatus>('idle')
  errorMessage,        \* useState<string>('')
  formData,            \* useState<FormData>({name, email, message})
  accessKey,           \* WEB3FORMS_ACCESS_KEY
  inflight,            \* handleSubmit calls waiting at an await
  timers,              \* pending setTimeout(() => setStatus('idle'), 5000)
  posts,               \* number of fetch calls made
  lastOutcome,         \* how the last completed network call ended
  \* calls of the two resolver functions outside the provider
  probe,
  \* the last call of useTheme() by a component
  consumer,
  \* Navbar and ScrollProgress
  scrollY,             \* window.scrollY
  scrollPending,       \* the position changed, its scroll event is not dispatched yet
  navTicking,          \* `ticking` of Navbar's effect
  navFrames,           \* requestAnimationFrame callbacks of Navbar not yet run
  isScrolled,          \* Navbar: useState(false)
  barTicking,          \* `ticking` of ScrollProgress's effect
  barFrames,           \* callbacks of ScrollProgress not yet run
  showBackToTop,       \* ScrollProgress: useState(false)
  throttled,           \* history: handleScroll calls that requested no frame
  \* GitHubActivity
  username,            \* props.username
  maxEvents,           \* props.maxEvents
  events,              \* useState<GitHubEvent[]>([])
  stats,               \* useState<GitHubStats | null>(null)
  commitCounts,        \* useState<Record<string, number>>({})
  loading,             \* useState(true)
  githubError,         \* useState<string | null>(null), `error` in the source
  effectDue,           \* the fetch effect is to run (after mount, after a change of props)
  fetches,             \* calls of fetchGitHubData waiting at an await
  started,             \* number of calls of fetchGitHubData made
  latest,              \* history: what the latest call set when it finished
  answered             \* history: the last response handled

themeVars == <<phase, theme, isSystemPreference, isInitialized, pending,
               localStorage, storageMode, matches, listeners, dataTheme,
               lastError, log>>

boundaryVars == <<hasError, error, fallback, shown>>

contactVars == <<status, errorMessage, formData, accessKey, inflight, timers,
                 posts, lastOutcome>>

scrollVars == <<scrollY, scrollPending, navTicking, navFrames, isScrolled,
                barTicking, barFrames, showBackToTop, throttled>>

githubVars == <<username, maxEvents, events, stats, commitCounts, loading,
                githubError, effectDue, fetches, started, latest, answered>>

\* the components modelled with specifications of their own
otherVars == <<consumer, scrollVars, githubVars>>

vars == <<phase, theme, isSystemPreference, isInitialized, pending,
          localStorage, storageMode, matches, listeners, dataTheme,
          lastError, log, hasError, error, fallback, shown,
          status, errorMessage, formData, accessKey, inflight, timers,
          posts, lastOutcome, probe, consumer,
          scrollY, scrollPending, navTicking, navFrames, isScrolled,
          barTicking, barFrames, showBackToTop, throttled,
          username, maxEvents, events, stats, commitCounts, loading,
          githubError, effectDue, fetches, started, latest, answered>>

\* ----------------------------------------------------------- pure functions

\* JavaScript truthiness of a string-or-null value
Truthy(s) == s # null /\ s # ""

\* getSystemTheme with the two results exchanged
getSystemTheme_inverted(win, m) ==
  IF ~win THEN "light"
  ELSE IF m THEN "light" ELSE "dark"

\* getSystemTheme(): win is (typeof window !== 'undefined'), m is .matches
getSystemTheme(win, m) ==
  IF ~win THEN "light"
  ELSE IF m THEN "dark" ELSE "light"

\* getInitialTheme with the flag test written as useSystem === 'false'
getInitialTheme_flagFalse(win, ls, m) ==
  IF ~win THEN [theme |-> "light", isSystem |-> TRUE]
  ELSE LET storedTheme == ls[THEME_STORAGE_KEY]
           useSystem == ls[SYSTEM_PREFERENCE_KEY]
       IN IF Truthy(storedTheme) /\ useSystem = "false"
          THEN [theme |-> storedTheme, isSystem |-> FALSE]
          ELSE [theme |-> getSystemTheme(win, m), isSystem |-> TRUE]

\* getInitialTheme without the flag test
getInitialTheme_noFlag(win, ls, m) ==
  IF ~win THEN [theme |-> "light", isSystem |-> TRUE]
  ELSE LET storedTheme == ls[THEME_STORAGE_KEY]
       IN IF Truthy(storedTheme)
          THEN [theme |-> storedTheme, isSystem |-> FALSE]
          ELSE [theme |-> getSystemTheme(win, m), isSystem |-> TRUE]

\* getInitialTheme without the typeof window test
getInitialTheme_noWindowCheck(win, ls, m) ==
  LET storedTheme == ls[THEME_STORAGE_KEY]
      useSystem == ls[SYSTEM_PREFERENCE_KEY]
  IN IF Truthy(storedTheme) /\ useSystem # "true"
     THEN [theme |-> storedTheme, isSystem |-> FALSE]
     ELSE [theme |-> getSystemTheme(win, m), isSystem |-> TRUE]

\* getInitialTheme() on storage contents ls
getInitialTheme(win, ls, m) ==
  IF ~win THEN [theme |-> "light", isSystem |-> TRUE]
  ELSE LET storedTheme == ls[THEME_STORAGE_KEY]
           useSystem == ls[SYSTEM_PREFERENCE_KEY]
       IN IF Truthy(storedTheme) /\ useSystem # "true"
          THEN [theme |-> storedTheme, isSystem |-> FALSE]
          ELSE [theme |-> getSystemTheme(win, m), isSystem |-> TRUE]

\* the storage keys getInitialTheme reads: none when window is undefined
\* (it returns before the getItem calls)
StorageReads(win) ==
  IF ~win THEN {} ELSE {THEME_STORAGE_KEY, SYSTEM_PREFERENCE_KEY}

\* newTheme with the comparison turned round: theme === 'dark' ? 'dark' : 'light'
Opposite_same(t) == IF t = "dark" THEN "dark" ELSE "light"

\* newTheme of toggleTheme
Opposite(t) == IF t = "light" THEN "dark" ELSE "light"

\* the listener effect without its cleanup function
ListenerEffect_noCleanup(n, oldSys, newSys) ==
  IF oldSys = newSys THEN n
  ELSE IF newSys /\ n < 2 THEN n + 1 ELSE n

\* the listener effect without its early return: registers in every run
ListenerEffect_always(n, oldSys, newSys) ==
  IF n = 0 THEN n + 1 ELSE n

\* the listener effect across a render: when its dependency changed, the
\* previous run's cleanup removes the listener that run added, then the
\* effect runs again and adds one if isSystemPreference is true
ListenerEffect(n, oldSys, newSys) ==
  IF oldSys = newSys THEN n
  ELSE LET cleaned == IF oldSys THEN n - 1 ELSE n
       IN IF newSys THEN cleaned + 1 ELSE cleaned

\* the apply effect without its early return
ApplyEffect_noGuard(init, t, old) == t

\* the apply effect: writes data-theme once the provider is initialized
ApplyEffect(init, t, old) == IF init THEN t ELSE old

\* localStorage.setItem(k, v) on contents ls
SetItem(ls, k, v) == [ls EXCEPT ![k] = v]

\* removeItem applied to the other key
RemoveItem_otherKey(ls, k) ==
  [ls EXCEPT ![CHOOSE o \in DOMAIN ls : o # k] = null]

\* localStorage.removeItem(k) on contents ls
RemoveItem(ls, k) == [ls EXCEPT ![k] = null]

\* history bookkeeping
Record(op, arg) ==
  LET e == [op |-> op, arg |-> arg, before |-> theme]
      l == Append(log, e)
  IN IF Len(l) > LogLen THEN Tail(l) ELSE l

NoUpdate == [theme |-> "light", isSystem |-> TRUE]

\* ------------------------------------------------------------------- Init
StorageKeys == {THEME_STORAGE_KEY, SYSTEM_PREFERENCE_KEY}

\* every combination of contents the two keys can have at start-up
InitialStorage ==
  { [k \in StorageKeys |-> IF k = THEME_STORAGE_KEY THEN t ELSE f] :
      t \in StoredThemeValues, f \in StoredFlagValues }

\* values a component below the boundary can throw
Errors == {"RenderError", "SecurityError"}

\* ErrorBoundary.getDerivedStateFromError(e)
getDerivedStateFromError(e) == [hasError |-> TRUE, error |-> e]

\* render() without the props.fallback branch
render_ignoresFallback(he, fb) ==
  IF he THEN "default" ELSE "children"

\* ErrorBoundary.render(): the custom fallback, the default fallback UI or
\* the children
render(he, fb) ==
  IF he THEN (IF fb THEN "fallback" ELSE "default")
  ELSE "children"

\* ErrorBoundary constructor; props.fallback is given or not
BoundaryInit ==
  /\ hasError = FALSE
  /\ error = null
  /\ fallback \in BOOLEAN
  /\ shown = "children"

\* Contact: the useState defaults, nothing sent yet
EmptyForm == [name |-> "", email |-> "", message |-> ""]

ContactIdle ==
  /\ status = "idle"
  /\ errorMessage = ""
  /\ formData = EmptyForm
  /\ inflight = 0
  /\ timers = 0
  /\ posts = 0
  /\ lastOutcome = "none"

\* the message of the branch taken when no access key is configured
NOT_CONFIGURED ==
  "Contact form is not configured. Please email me directly at dalupang.juztyneclever1@gmail.com"

\* what the user can have typed into a field
FieldValues == {"", "a"}

FormFields == {"name", "email", "message"}

\* the ways the network call of a submission can end:
\*   "success"         the JSON result has success: true
\*   "failureMessage"  success is false and result.message is given
\*   "failure"         success is false and there is no message
\*   "rejected"        fetch or response.json() rejects with an Error
\*   "rejectedEmpty"   the same, the Error's message being empty
\*   "rejectedOther"   a value that is not an Error is thrown
Outcomes == {"success", "failureMessage", "failure", "rejected",
             "rejectedEmpty", "rejectedOther"}

\* the test on the response with response.ok (any response received) in
\* place of result.success
ResultSuccess_anyResponse(o) == o \in {"success", "failureMessage", "failure"}

\* if (result.success)
ResultSuccess(o) == o = "success"

\* the message set by the catch block: error.message for an Error (the one
\* thrown for an unsuccessful result carries result.message or 'Failed to
\* send message'), a fixed text for any other value
CatchMessage(o) ==
  CASE o = "failureMessage" -> "Invalid access key"
    [] o = "failure" -> "Failed to send message"
    [] o = "rejected" -> "Failed to fetch"
    [] o = "rejectedEmpty" -> ""
    [] OTHER -> "Failed to send message. Please try again."

\* the text of the error panel: errorMessage || 'Something went wrong...'
DisplayedError(msg) ==
  IF msg = "" THEN "Something went wrong. Please try again." ELSE msg

\* the form can be submitted: every field is `required`, and the submit
\* button is disabled while status is 'submitting'
CanSubmit ==
  /\ status # "submitting"
  /\ \A f \in FormFields : formData[f] # ""

\* no call of the resolver functions outside the provider
NoProbe == [win |-> TRUE, fn |-> "none", theme |-> "light", isSystem |-> TRUE,
            reads |-> {}, threw |-> FALSE]

\* no call of useTheme() made
NoCall == [called |-> FALSE, provider |-> FALSE, threw |-> FALSE,
           message |-> null, value |-> <<>>]

\* Navbar and ScrollProgress mounted on a page at its top: the useState
\* defaults, `let ticking = false`, no frame requested
ScrollTop ==
  /\ scrollY = 0
  /\ scrollPending = FALSE
  /\ navTicking = FALSE
  /\ navFrames = 0
  /\ isScrolled = FALSE
  /\ barTicking = FALSE
  /\ barFrames = 0
  /\ showBackToTop = FALSE
  /\ throttled = 0

\* no fetch has finished yet
NoResult == [id |-> 0, failed |-> FALSE, events |-> <<>>, stats |-> null,
             counts |-> <<>>]

\* no response handled yet
NoAnswer == [id |-> 0, stage |-> "none", maxEvents |-> 0, main |-> "none",
             compare |-> <<>>]

\* GitHubActivity after its first render with props u and m: the useState
\* defaults, the fetch effect still to run
GitHubMounted(u, m) ==
  /\ username = u
  /\ maxEvents = m
  /\ events = <<>>
  /\ stats = null
  /\ commitCounts = <<>>
  /\ loading = TRUE
  /\ githubError = null
  /\ effectDue = TRUE
  /\ fetches = {}
  /\ started = 0
  /\ latest = NoResult
  /\ answered = NoAnswer

\* the other components as they are when the page has loaded
OthersIdle ==
  /\ consumer = NoCall
  /\ ScrollTop
  /\ GitHubMounted("alice", 1)

InitCommon ==
  /\ OthersIdle
  /\ BoundaryInit
  /\ ContactIdle
  /\ accessKey = ""
  /\ phase = "unmounted"
  /\ theme = "light"
  /\ isSystemPreference = TRUE
  /\ isInitialized = FALSE
  /\ pending = NoUpdate
  /\ localStorage \in InitialStorage
  /\ matches \in BOOLEAN
  /\ listeners = 0
  /\ dataTheme = null
  /\ lastError = null
  /\ log = <<>>

\* browser with working storage
Init == InitCommon /\ storageMode = "ok" /\ probe = NoProbe

\* browser whose storage may refuse writes or every access
InitStorageFault == InitCommon /\ storageMode \in StorageModes /\ probe = NoProbe

\* the two resolver functions called on their own, inside or outside a
\* browser (window defined or not), on any storage
InitResolve ==
  /\ InitCommon
  /\ storageMode \in StorageModes
  /\ probe \in {[NoProbe EXCEPT !.win = w] : w \in BOOLEAN}

\* ---------------------------------------------------------------- actions

\* first render of ThemeProvider: the three useState defaults; the component
\* returns null (isInitialized is false); effects have not run yet
Mount ==
  /\ phase = "unmounted"
  /\ ~hasError
  /\ phase' = "rendered"
  /\ theme' = "light"
  /\ isSystemPreference' = TRUE
  /\ isInitialized' = FALSE
  /\ pending' = NoUpdate
  /\ lastError' = null
  /\ log' = Record("mount", null)
  /\ UNCHANGED <<localStorage, storageMode, matches, listeners, dataTheme>>
  /\ UNCHANGED <<boundaryVars, contactVars, probe, otherVars>>

\* the effects of the first render, in order: initialize (queues the three
\* state updates), apply (returns: isInitialized is false in this render),
\* listener (isSystemPreference is true in this render: registers).
\* When storage access is denied getInitialTheme throws inside the effect:
\* the ErrorBoundary above the provider replaces the subtree, the provider
\* is unmounted and the listener effect's cleanup runs.
\* Under React.StrictMode in a development build the effects are run,
\* cleaned up and run again within this same step: the same updates are
\* queued and one listener is left registered.
RunMountEffects ==
  /\ phase = "rendered"
  /\ IF storageMode = "denied"
     THEN /\ lastError' = "getInitialTheme"
          /\ phase' = "unmounted"
          /\ pending' = NoUpdate
          /\ listeners' = ListenerEffect(ListenerEffect(listeners, FALSE, isSystemPreference),
                                         isSystemPreference, FALSE)
          /\ hasError' = getDerivedStateFromError("SecurityError").hasError
          /\ error' = getDerivedStateFromError("SecurityError").error
          /\ shown' = render(hasError', fallback)
          /\ dataTheme' = dataTheme
     ELSE /\ lastError' = lastError
          /\ phase' = "effects"
          /\ pending' = getInitialTheme(TRUE, localStorage, matches)
          /\ dataTheme' = ApplyEffect(isInitialized, theme, dataTheme)
          /\ listeners' = ListenerEffect(listeners, FALSE, isSystemPreference)
          /\ UNCHANGED <<hasError, error, shown>>
  /\ log' = Record("getInitialTheme", null)
  /\ UNCHANGED <<theme, isSystemPreference, isInitialized, localStorage,
                 storageMode, matches>>
  /\ UNCHANGED <<fallback, contactVars, probe, otherVars>>

\* the initialize effect without setThemeState(initialTheme)
RenderInitialized_noTheme ==
  /\ phase = "effects"
  /\ phase' = "ready"
  /\ theme' = theme
  /\ isSystemPreference' = pending.isSystem
  /\ isInitialized' = TRUE
  /\ pending' = NoUpdate
  /\ listeners' = ListenerEffect(listeners, isSystemPreference, isSystemPreference')
  /\ dataTheme' = ApplyEffect(isInitialized', theme', dataTheme)
  /\ log' = Record("initialized", null)
  /\ UNCHANGED <<localStorage, storageMode, matches, lastError>>
  /\ UNCHANGED <<boundaryVars, contactVars, probe, otherVars>>

\* the render of the queued updates (setThemeState, setIsSystemPreference,
\* setIsInitialized(true)) and the effects of that render
RenderInitialized ==
  /\ phase = "effects"
  /\ phase' = "ready"
  /\ theme' = pending.theme
  /\ isSystemPreference' = pending.isSystem
  /\ isInitialized' = TRUE
  /\ pending' = NoUpdate
  /\ listeners' = ListenerEffect(listeners, isSystemPreference, isSystemPreference')
  /\ dataTheme' = ApplyEffect(isInitialized', theme', dataTheme)
  /\ log' = Record("initialized", null)
  /\ UNCHANGED <<localStorage, storageMode, matches, lastError>>
  /\ UNCHANGED <<boundaryVars, contactVars, probe, otherVars>>

\* handleChange persisting the theme it sets
SystemChange_persists ==
  /\ matches' = ~matches
  /\ IF listeners > 0
     THEN /\ theme' = (IF matches' THEN "dark" ELSE "light")
          /\ pending' = IF phase = "effects"
                        THEN [pending EXCEPT !.theme = theme']
                        ELSE pending
          /\ dataTheme' = ApplyEffect(isInitialized, theme', dataTheme)
          /\ localStorage' = SetItem(localStorage, THEME_STORAGE_KEY, theme')
     ELSE UNCHANGED <<theme, pending, dataTheme, localStorage>>
  /\ log' = Record("change", IF matches' THEN "dark" ELSE "light")
  /\ UNCHANGED <<phase, isSystemPreference, isInitialized,
                 storageMode, listeners, lastError>>
  /\ UNCHANGED <<boundaryVars, contactVars, probe, otherVars>>

\* the system colour scheme changes; the media query dispatches "change" to
\* every registered handleChange, which calls setThemeState(e.matches ? ...).
\* Before the queued initial updates are rendered the call is queued behind
\* them, so it is the value the later render ends with.
SystemChange ==
  /\ matches' = ~matches
  /\ IF listeners > 0
     THEN /\ theme' = (IF matches' THEN "dark" ELSE "light")
          /\ pending' = IF phase = "effects"
                        THEN [pending EXCEPT !.theme = theme']
                        ELSE pending
          /\ dataTheme' = ApplyEffect(isInitialized, theme', dataTheme)
     ELSE UNCHANGED <<theme, pending, dataTheme>>
  /\ log' = Record("change", IF matches' THEN "dark" ELSE "light")
  /\ UNCHANGED <<phase, isSystemPreference, isInitialized, localStorage,
                 storageMode, listeners, lastError>>
  /\ UNCHANGED <<boundaryVars, contactVars, probe, otherVars>>

\* setTheme without the write of the use-system key
SetThemeBody_noFlag(newTheme) ==
  /\ theme' = newTheme
  /\ isSystemPreference' = FALSE
  /\ IF storageMode = "ok"
     THEN /\ localStorage' = SetItem(localStorage, THEME_STORAGE_KEY, newTheme)
          /\ lastError' = lastError
     ELSE /\ localStorage' = localStorage
          /\ lastError' = "setTheme"
  /\ listeners' = ListenerEffect(listeners, isSystemPreference, isSystemPreference')
  /\ dataTheme' = ApplyEffect(isInitialized, theme', dataTheme)
  /\ UNCHANGED <<phase, isInitialized, pending, storageMode, matches>>
  /\ UNCHANGED <<boundaryVars, contactVars, probe, otherVars>>

\* setTheme without setIsSystemPreference(false)
SetThemeBody_keepsSource(newTheme) ==
  /\ theme' = newTheme
  /\ isSystemPreference' = isSystemPreference
  /\ IF storageMode = "ok"
     THEN /\ localStorage' = SetItem(SetItem(localStorage, THEME_STORAGE_KEY, newTheme),
                                     SYSTEM_PREFERENCE_KEY, "false")
          /\ lastError' = lastError
     ELSE /\ localStorage' = localStorage
          /\ lastError' = "setTheme"
  /\ listeners' = ListenerEffect(listeners, isSystemPreference, isSystemPreference')
  /\ dataTheme' = ApplyEffect(isInitialized, theme', dataTheme)
  /\ UNCHANGED <<phase, isInitialized, pending, storageMode, matches>>
  /\ UNCHANGED <<boundaryVars, contactVars, probe, otherVars>>

\* body of setTheme(newTheme), then the render and its effects.  The two
\* state updates are queued before the storage calls, so they are rendered
\* also when a storage call throws.
SetThemeBody(newTheme) ==
  /\ theme' = newTheme
  /\ isSystemPreference' = FALSE
  /\ IF storageMode = "ok"
     THEN /\ localStorage' = SetItem(SetItem(localStorage, THEME_STORAGE_KEY, newTheme),
                                     SYSTEM_PREFERENCE_KEY, "false")
          /\ lastError' = lastError
     ELSE /\ localStorage' = localStorage
          /\ lastError' = "setTheme"
  /\ listeners' = ListenerEffect(listeners, isSystemPreference, isSystemPreference')
  /\ dataTheme' = ApplyEffect(isInitialized, theme', dataTheme)
  /\ UNCHANGED <<phase, isInitialized, pending, storageMode, matches>>
  /\ UNCHANGED <<boundaryVars, contactVars, probe, otherVars>>

\* setTheme(newTheme) called by a consumer of the context
setTheme ==
  /\ phase = "ready"
  /\ \E newTheme \in Theme :
       /\ SetThemeBody(newTheme)
       /\ log' = Record("setTheme", newTheme)

\* toggleTheme calling setThemeState in place of setTheme
toggleTheme_stateOnly ==
  /\ phase = "ready"
  /\ LET newTheme == Opposite(theme)
     IN /\ theme' = newTheme
        /\ dataTheme' = ApplyEffect(isInitialized, theme', dataTheme)
        /\ log' = Record("toggleTheme", newTheme)
  /\ UNCHANGED <<phase, isSystemPreference, isInitialized, pending, localStorage,
                 storageMode, matches, listeners, lastError>>
  /\ UNCHANGED <<boundaryVars, contactVars, probe, otherVars>>

\* toggleTheme(): the click handler of ThemeToggle
toggleTheme ==
  /\ phase = "ready"
  /\ LET newTheme == Opposite(theme)
     IN /\ SetThemeBody(newTheme)
        /\ log' = Record("toggleTheme", newTheme)

\* resetToSystemPreference without setThemeState(systemTheme)
resetToSystemPreference_noResync ==
  /\ phase = "ready"
  /\ LET systemTheme == getSystemTheme(TRUE, matches)
     IN /\ theme' = theme
        /\ isSystemPreference' = TRUE
        /\ CASE storageMode = "ok" ->
                  /\ localStorage' = SetItem(RemoveItem(localStorage, THEME_STORAGE_KEY),
                                             SYSTEM_PREFERENCE_KEY, "true")
                  /\ lastError' = lastError
             [] storageMode = "quota" ->
                  /\ localStorage' = RemoveItem(localStorage, THEME_STORAGE_KEY)
                  /\ lastError' = "resetToSystemPreference"
             [] OTHER ->
                  /\ localStorage' = localStorage
                  /\ lastError' = "resetToSystemPreference"
        /\ listeners' = ListenerEffect(listeners, isSystemPreference, isSystemPreference')
        /\ dataTheme' = ApplyEffect(isInitialized, theme', dataTheme)
        /\ log' = Record("reset", systemTheme)
  /\ UNCHANGED <<phase, isInitialized, pending, storageMode, matches>>
  /\ UNCHANGED <<boundaryVars, contactVars, probe, otherVars>>

\* resetToSystemPreference(), then the render and its effects
resetToSystemPreference ==
  /\ phase = "ready"
  /\ LET systemTheme == getSystemTheme(TRUE, matches)
     IN /\ theme' = systemTheme
        /\ isSystemPreference' = TRUE
        /\ CASE storageMode = "ok" ->
                  /\ localStorage' = SetItem(RemoveItem(localStorage, THEME_STORAGE_KEY),
                                             SYSTEM_PREFERENCE_KEY, "true")
                  /\ lastError' = lastError
             [] storageMode = "quota" ->
                  /\ localStorage' = RemoveItem(localStorage, THEME_STORAGE_KEY)
                  /\ lastError' = "resetToSystemPreference"
             [] OTHER ->
                  /\ localStorage' = localStorage
                  /\ lastError' = "resetToSystemPreference"
        /\ listeners' = ListenerEffect(listeners, isSystemPreference, isSystemPreference')
        /\ dataTheme' = ApplyEffect(isInitialized, theme', dataTheme)
        /\ log' = Record("reset", systemTheme)
  /\ UNCHANGED <<phase, isInitialized, pending, storageMode, matches>>
  /\ UNCHANGED <<boundaryVars, contactVars, probe, otherVars>>

\* the provider is unmounted (page left, or an ancestor stops rendering
\* it): the listener effect's cleanup runs, the component state is dropped
Unmount ==
  /\ phase # "unmounted"
  /\ phase' = "unmounted"
  /\ listeners' = IF phase = "rendered" THEN listeners
                  ELSE ListenerEffect(listeners, isSystemPreference, FALSE)
  /\ theme' = "light"
  /\ isSystemPreference' = TRUE
  /\ isInitialized' = FALSE
  /\ pending' = NoUpdate
  /\ log' = Record("unmount", null)
  /\ UNCHANGED <<localStorage, storageMode, matches, dataTheme, lastError>>
  /\ UNCHANGED <<boundaryVars, contactVars, probe, otherVars>>

\* a component below the boundary throws while rendering: React calls
\* getDerivedStateFromError and componentDidCatch (which only logs), the
\* boundary renders its fallback and its children, the provider among them,
\* are unmounted
ChildThrows ==
  /\ phase = "ready"
  /\ ~hasError
  /\ \E e \in Errors :
       /\ hasError' = getDerivedStateFromError(e).hasError
       /\ error' = getDerivedStateFromError(e).error
  /\ shown' = render(hasError', fallback)
  /\ phase' = "unmounted"
  /\ listeners' = ListenerEffect(listeners, isSystemPreference, FALSE)
  /\ theme' = "light"
  /\ isSystemPreference' = TRUE
  /\ isInitialized' = FALSE
  /\ pending' = NoUpdate
  /\ log' = Record("childThrows", null)
  /\ UNCHANGED <<localStorage, storageMode, matches, dataTheme, lastError>>
  /\ UNCHANGED <<fallback, contactVars, probe, otherVars>>

\* ErrorBoundary.handleReset: the Try Again button of the default fallback
handleReset ==
  /\ hasError
  /\ ~fallback
  /\ hasError' = FALSE
  /\ error' = null
  /\ shown' = render(hasError', fallback)
  /\ log' = Record("handleReset", null)
  /\ UNCHANGED <<phase, theme, isSystemPreference, isInitialized, pending,
                 localStorage, storageMode, matches, listeners, dataTheme,
                 lastError>>
  /\ UNCHANGED <<fallback, contactVars, probe, otherVars>>

\* ErrorBoundary.handleReload: window.location.reload() loads the page
\* again: a new document and new component instances; storage and the
\* system colour scheme are kept
handleReload ==
  /\ hasError
  /\ ~fallback
  /\ hasError' = FALSE
  /\ error' = null
  /\ shown' = "children"
  /\ dataTheme' = null
  /\ lastError' = null
  /\ log' = Record("handleReload", null)
  /\ UNCHANGED <<phase, theme, isSystemPreference, isInitialized, pending,
                 localStorage, storageMode, matches, listeners>>
  /\ UNCHANGED <<fallback, contactVars, probe, otherVars>>

\* getInitialTheme() called on its own.  A storage read throws outside a
\* browser (localStorage is not defined) and when storage access is denied.
CallGetInitialTheme ==
  /\ probe.fn = "none"
  /\ LET r == getInitialTheme(probe.win, localStorage, matches)
         reads == StorageReads(probe.win)
         threw == reads # {} /\ (~probe.win \/ storageMode = "denied")
     IN probe' = [win |-> probe.win, fn |-> "getInitialTheme",
                  theme |-> IF threw THEN null ELSE r.theme,
                  isSystem |-> IF threw THEN FALSE ELSE r.isSystem,
                  reads |-> reads, threw |-> threw]
  /\ UNCHANGED <<themeVars, boundaryVars, contactVars, otherVars>>

\* getSystemTheme() called on its own
CallGetSystemTheme ==
  /\ probe.fn = "none"
  /\ probe' = [win |-> probe.win, fn |-> "getSystemTheme",
               theme |-> getSystemTheme(probe.win, matches),
               isSystem |-> TRUE, reads |-> {}, threw |-> FALSE]
  /\ UNCHANGED <<themeVars, boundaryVars, contactVars, otherVars>>

NextResolve ==
  \/ CallGetInitialTheme
  \/ CallGetSystemTheme

Next ==
  \/ Mount
  \/ RunMountEffects
  \/ RenderInitialized
  \/ SystemChange
  \/ setTheme
  \/ toggleTheme
  \/ resetToSystemPreference
  \/ Unmount
  \/ ChildThrows
  \/ handleReset
  \/ handleReload

Spec == Init /\ [][Next]_vars

SpecStorageFault == InitStorageFault /\ [][Next]_vars

SpecResolve == InitResolve /\ [][NextResolve]_vars

\* ------------------------------------------------------------ contact form

\* the Contact component on a page whose theme store is left alone; the
\* access key is configured or not
InitContact ==
  /\ OthersIdle
  /\ ContactIdle
  /\ accessKey \in {"", "key"}
  /\ hasError = FALSE /\ error = null /\ fallback = FALSE /\ shown = "children"
  /\ probe = NoProbe
  /\ phase = "unmounted"
  /\ theme = "light"
  /\ isSystemPreference = TRUE
  /\ isInitialized = FALSE
  /\ pending = NoUpdate
  /\ localStorage = [k \in StorageKeys |-> null]
  /\ storageMode = "ok"
  /\ matches = FALSE
  /\ listeners = 0
  /\ dataTheme = null
  /\ lastError = null
  /\ log = <<>>

\* Contact.handleChange: the user edits a field
handleChange ==
  /\ \E f \in FormFields, v \in FieldValues :
       /\ formData[f] # v
       /\ formData' = [formData EXCEPT ![f] = v]
  /\ UNCHANGED <<status, errorMessage, accessKey, inflight, timers, posts,
                 lastOutcome>>
  /\ UNCHANGED <<themeVars, boundaryVars, probe, otherVars>>

\* Contact.handleSubmit without the access-key test
handleSubmit_noKeyCheck ==
  /\ CanSubmit
  /\ posts < MaxSubmissions
  /\ status' = "submitting"
  /\ errorMessage' = ""
  /\ inflight' = inflight + 1
  /\ posts' = posts + 1
  /\ UNCHANGED <<formData, accessKey, timers, lastOutcome>>
  /\ UNCHANGED <<themeVars, boundaryVars, probe, otherVars>>

\* Contact.handleSubmit up to its first await.  Without an access key the
\* handler sets the error and returns: no fetch, no timer.  With one it
\* sets 'submitting', clears the message and calls fetch.
handleSubmit ==
  /\ CanSubmit
  /\ IF accessKey = ""
     THEN /\ status' = "error"
          /\ errorMessage' = NOT_CONFIGURED
          /\ UNCHANGED <<inflight, posts>>
     ELSE /\ posts < MaxSubmissions
          /\ status' = "submitting"
          /\ errorMessage' = ""
          /\ inflight' = inflight + 1
          /\ posts' = posts + 1
  /\ UNCHANGED <<formData, accessKey, timers, lastOutcome>>
  /\ UNCHANGED <<themeVars, boundaryVars, probe, otherVars>>

\* the rest of handleSubmit with the form cleared in the catch block as well
Respond_clearsOnError ==
  /\ inflight > 0
  /\ \E o \in Outcomes :
       /\ lastOutcome' = o
       /\ IF ResultSuccess(o)
          THEN /\ status' = "success"
               /\ formData' = EmptyForm
               /\ timers' = timers + 1
               /\ UNCHANGED errorMessage
          ELSE /\ status' = "error"
               /\ errorMessage' = CatchMessage(o)
               /\ timers' = timers + 1
               /\ formData' = EmptyForm
  /\ inflight' = inflight - 1
  /\ UNCHANGED <<accessKey, posts>>
  /\ UNCHANGED <<themeVars, boundaryVars, probe, otherVars>>

\* the rest of handleSubmit with no setTimeout in the success branch
Respond_noSuccessTimer ==
  /\ inflight > 0
  /\ \E o \in Outcomes :
       /\ lastOutcome' = o
       /\ IF ResultSuccess(o)
          THEN /\ status' = "success"
               /\ formData' = EmptyForm
               /\ timers' = timers
               /\ UNCHANGED errorMessage
          ELSE /\ status' = "error"
               /\ errorMessage' = CatchMessage(o)
               /\ timers' = timers + 1
               /\ UNCHANGED formData
  /\ inflight' = inflight - 1
  /\ UNCHANGED <<accessKey, posts>>
  /\ UNCHANGED <<themeVars, boundaryVars, probe, otherVars>>

\* the rest of handleSubmit, run when the network call of one outstanding
\* submission has ended: the success branch or the catch block, each
\* starting the 5000 ms timer
Respond ==
  /\ inflight > 0
  /\ \E o \in Outcomes :
       /\ lastOutcome' = o
       /\ IF ResultSuccess(o)
          THEN /\ status' = "success"
               /\ formData' = EmptyForm
               /\ timers' = timers + 1
               /\ UNCHANGED errorMessage
          ELSE /\ status' = "error"
               /\ errorMessage' = CatchMessage(o)
               /\ timers' = timers + 1
               /\ UNCHANGED formData
  /\ inflight' = inflight - 1
  /\ UNCHANGED <<accessKey, posts>>
  /\ UNCHANGED <<themeVars, boundaryVars, probe, otherVars>>

\* a timer started by handleSubmit fires: setStatus('idle')
TimerFires ==
  /\ timers > 0
  /\ timers' = timers - 1
  /\ status' = "idle"
  /\ UNCHANGED <<errorMessage, formData, accessKey, inflight, posts, lastOutcome>>
  /\ UNCHANGED <<themeVars, boundaryVars, probe, otherVars>>

\* the Send Another and Try Again buttons: setStatus('idle')
Dismiss ==
  /\ status \in {"success", "error"}
  /\ status' = "idle"
  /\ UNCHANGED <<errorMessage, formData, accessKey, inflight, timers, posts,
                 lastOutcome>>
  /\ UNCHANGED <<themeVars, boundaryVars, probe, otherVars>>

NextContact ==
  \/ handleChange
  \/ handleSubmit
  \/ Respond
  \/ TimerFires
  \/ Dismiss

SpecContact == InitContact /\ [][NextContact]_vars

\* a timer that was started fires: the page's event loop runs every timer
SpecContactFair == SpecContact /\ WF_vars(TimerFires)

\* ------------------------------------------------- Navbar and ScrollProgress

\* SCROLL_THRESHOLD of Navbar
NAVBAR_SCROLL_THRESHOLD == 20

\* SCROLL_THRESHOLD of ScrollProgress
PROGRESS_SCROLL_THRESHOLD == 400

\* scroll positions: the top, each threshold, one pixel past each threshold
ScrollPositions == {0, 20, 21, 400, 401}

\* the theme store, the boundary and the contact form as they are on a
\* page where nothing has been done with them
PageIdle ==
  /\ ContactIdle
  /\ accessKey = ""
  /\ hasError = FALSE /\ error = null /\ fallback = FALSE /\ shown = "children"
  /\ probe = NoProbe
  /\ phase = "unmounted"
  /\ theme = "light"
  /\ isSystemPreference = TRUE
  /\ isInitialized = FALSE
  /\ pending = NoUpdate
  /\ localStorage = [k \in StorageKeys |-> null]
  /\ storageMode = "ok"
  /\ matches = FALSE
  /\ listeners = 0
  /\ dataTheme = null
  /\ lastError = null
  /\ log = <<>>

\* Navbar and ScrollProgress mounted (their effects have added the scroll
\* listeners), the page at its top
InitScroll ==
  /\ PageIdle
  /\ consumer = NoCall
  /\ GitHubMounted("alice", 1)
  /\ ScrollTop

\* handleScroll requesting a frame on every event
handleScrollBody_noThrottle(ticking, frames) ==
  [ticking |-> TRUE,
   frames |-> IF frames < 3 THEN frames + 1 ELSE frames,
   skipped |-> FALSE]

\* handleScroll of one effect: requests an animation frame and sets ticking,
\* unless ticking is set already
handleScrollBody(ticking, frames) ==
  IF ~ticking
  THEN [ticking |-> TRUE, frames |-> frames + 1, skipped |-> FALSE]
  ELSE [ticking |-> ticking, frames |-> frames, skipped |-> TRUE]

\* the page is scrolled (by the user, scrollIntoView or scrollTo): the
\* position changes now, the scroll event is dispatched later
Scroll ==
  /\ \E y \in ScrollPositions :
       /\ y # scrollY
       /\ scrollY' = y
  /\ scrollPending' = TRUE
  /\ UNCHANGED <<navTicking, navFrames, isScrolled, barTicking, barFrames,
                 showBackToTop, throttled>>
  /\ UNCHANGED <<themeVars, boundaryVars, contactVars, probe, consumer,
                 githubVars>>

\* the scroll event is dispatched to window: both listeners run
handleScroll ==
  /\ scrollPending
  /\ scrollPending' = FALSE
  /\ LET nav == handleScrollBody(navTicking, navFrames)
         bar == handleScrollBody(barTicking, barFrames)
         n == throttled + (IF nav.skipped THEN 1 ELSE 0)
                        + (IF bar.skipped THEN 1 ELSE 0)
     IN /\ navTicking' = nav.ticking
        /\ navFrames' = nav.frames
        /\ barTicking' = bar.ticking
        /\ barFrames' = bar.frames
        /\ throttled' = IF n > MaxThrottled THEN MaxThrottled ELSE n
  /\ UNCHANGED <<scrollY, isScrolled, showBackToTop>>
  /\ UNCHANGED <<themeVars, boundaryVars, contactVars, probe, consumer,
                 githubVars>>

\* a frame callback of Navbar runs: setIsScrolled(window.scrollY >
\* SCROLL_THRESHOLD); ticking = false
NavbarFrame ==
  /\ navFrames > 0
  /\ navFrames' = navFrames - 1
  /\ isScrolled' = (scrollY > NAVBAR_SCROLL_THRESHOLD)
  /\ navTicking' = FALSE
  /\ UNCHANGED <<scrollY, scrollPending, barTicking, barFrames, showBackToTop,
                 throttled>>
  /\ UNCHANGED <<themeVars, boundaryVars, contactVars, probe, consumer,
                 githubVars>>

\* a frame callback of ScrollProgress runs: setShowBackToTop(window.scrollY >
\* SCROLL_THRESHOLD); ticking = false
ScrollProgressFrame ==
  /\ barFrames > 0
  /\ barFrames' = barFrames - 1
  /\ showBackToTop' = (scrollY > PROGRESS_SCROLL_THRESHOLD)
  /\ barTicking' = FALSE
  /\ UNCHANGED <<scrollY, scrollPending, navTicking, navFrames, isScrolled,
                 throttled>>
  /\ UNCHANGED <<themeVars, boundaryVars, contactVars, probe, consumer,
                 githubVars>>

NextScroll ==
  \/ Scroll
  \/ handleScroll
  \/ NavbarFrame
  \/ ScrollProgressFrame

SpecScroll == InitScroll /\ [][NextScroll]_vars

\* ------------------------------------------------------------ GitHubActivity

\* the message set by the catch block of fetchGitHubData
GITHUB_ERROR == "Unable to load GitHub activity"

\* values of the username prop
Users == {"alice", "bob"}

\* values of the maxEvents prop
MaxEventsValues == {1, 2}

\* the public events the API holds for a user, newest first, by id
PublicEvents(u) ==
  IF u = "alice" THEN <<"a1", "a2", "a3">> ELSE <<"b1", "b2">>

\* event.type === 'PushEvent'
IsPush(e) == e \in {"a1", "a3", "b1", "b2"}

\* event.payload.before && event.payload.head
HasRefs(e) == e \in {"a1", "a3", "b2"}

\* event.payload.size of a push event
PayloadSize(e) == 2

\* the user data the API returns for a user
UserData(u) == [user |-> u]

\* the first n elements of s: the page of per_page = n the API returns, and
\* Array.prototype.slice(0, n)
Slice(s, n) == SubSeq(s, 1, IF n < Len(s) THEN n ELSE Len(s))

\* eventsData.slice(0, maxEvents) on the page requested with
\* per_page = maxEvents * 2
FilteredEvents(u, m) == Slice(Slice(PublicEvents(u), m * 2), m)

\* the ids of pushEvents: push events of the list that carry both refs
PushEvents(es) ==
  {es[i] : i \in {j \in 1..Len(es) : IsPush(es[j]) /\ HasRefs(es[j])}}

\* how the user and events requests of one call end:
\*   "ok"           both responses are ok and their bodies are read
\*   "userNotOk"    the user response is not ok
\*   "eventsNotOk"  the events response is not ok
\*   "rejected"     fetch or response.json() rejects
MainOutcomes == {"ok", "userNotOk", "eventsNotOk", "rejected"}

\* how the compare request of one push event ends:
\*   "many"      ok, total_commits is 3
\*   "notOk"     the response is not ok
\*   "rejected"  fetch or response.json() rejects
CompareOutcomes == {"many", "notOk", "rejected"}

\* counts[event.id] without the default on a failed compare
CommitCount_noDefault(o) == IF o = "many" THEN 3 ELSE 0

\* counts[event.id] as set for a compare request that ended with o
CommitCount(o) == IF o = "many" THEN 3 ELSE 1

\* getCommitCount(event) on the commitCounts state
getCommitCount(e, counts) ==
  IF ~IsPush(e) THEN 0
  ELSE IF e \in DOMAIN counts /\ counts[e] # 0 THEN counts[e]
  ELSE PayloadSize(e)

\* what a call that finished has set
Result(r, failed, es, counts) ==
  [id |-> r.id, failed |-> failed,
   events |-> IF failed THEN <<>> ELSE es,
   stats |-> IF failed THEN null ELSE UserData(r.username).user,
   counts |-> IF failed THEN <<>> ELSE counts]

\* the page with GitHubActivity rendered for some user and maxEvents
InitGitHub ==
  /\ PageIdle
  /\ consumer = NoCall
  /\ ScrollTop
  /\ \E u \in Users, m \in MaxEventsValues : GitHubMounted(u, m)

\* the parent renders GitHubActivity with another username or maxEvents;
\* the effect's dependencies changed, so it is to run again.  Effects of
\* the previous render are run before a new render starts.
ChangeProps ==
  /\ ~effectDue
  /\ started < MaxFetches
  /\ \E u \in Users, m \in MaxEventsValues :
       /\ <<u, m>> # <<username, maxEvents>>
       /\ username' = u
       /\ maxEvents' = m
  /\ effectDue' = TRUE
  /\ UNCHANGED <<events, stats, commitCounts, loading, githubError, fetches,
                 started, latest, answered>>
  /\ UNCHANGED <<themeVars, boundaryVars, contactVars, probe, consumer,
                 scrollVars>>

\* the effect runs fetchGitHubData up to its first await: setLoading(true),
\* setError(null), the two fetch calls.  The effect has no cleanup: calls
\* made by earlier runs go on.
FetchEffect ==
  /\ effectDue
  /\ effectDue' = FALSE
  /\ loading' = TRUE
  /\ githubError' = null
  /\ started' = started + 1
  /\ fetches' = fetches \cup {[id |-> started + 1, username |-> username,
                                maxEvents |-> maxEvents, stage |-> "main",
                                events |-> <<>>]}
  /\ UNCHANGED <<username, maxEvents, events, stats, commitCounts, latest,
                 answered>>
  /\ UNCHANGED <<themeVars, boundaryVars, contactVars, probe, consumer,
                 scrollVars>>

\* the user and events requests of one call have ended.  Both ok: setStats,
\* setEvents(filteredEvents), then the compare requests are made.  Otherwise
\* the catch block (setError) and the finally block (setLoading(false)).
MainResponse ==
  \E r \in fetches, o \in MainOutcomes :
    /\ r.stage = "main"
    /\ answered' = [id |-> r.id, stage |-> "main", maxEvents |-> r.maxEvents,
                    main |-> o, compare |-> <<>>]
    /\ IF o = "ok"
       THEN /\ stats' = UserData(r.username).user
            /\ events' = FilteredEvents(r.username, r.maxEvents)
            /\ fetches' = (fetches \ {r}) \cup
                            {[r EXCEPT !.stage = "compare", !.events = events']}
            /\ UNCHANGED <<githubError, loading, latest>>
       ELSE /\ githubError' = GITHUB_ERROR
            /\ loading' = FALSE
            /\ fetches' = fetches \ {r}
            /\ latest' = IF r.id > latest.id
                          THEN Result(r, TRUE, <<>>, <<>>) ELSE latest
            /\ UNCHANGED <<stats, events>>
    /\ UNCHANGED <<username, maxEvents, commitCounts, effectDue, started>>
    /\ UNCHANGED <<themeVars, boundaryVars, contactVars, probe, consumer,
                   scrollVars>>

\* the compare requests of one call have all ended (none is made when the
\* list has no push event with refs): setCommitCounts(counts), then the
\* finally block
CompareResponse ==
  \E r \in fetches :
    /\ r.stage = "compare"
    /\ \E f \in [PushEvents(r.events) -> CompareOutcomes] :
         /\ commitCounts' = [e \in PushEvents(r.events) |-> CommitCount(f[e])]
         /\ answered' = [id |-> r.id, stage |-> "compare",
                         maxEvents |-> r.maxEvents, main |-> "ok", compare |-> f]
    /\ loading' = FALSE
    /\ fetches' = fetches \ {r}
    /\ latest' = IF r.id > latest.id
                  THEN Result(r, FALSE, r.events, commitCounts') ELSE latest
    /\ UNCHANGED <<username, maxEvents, events, stats, githubError, effectDue,
                   started>>
    /\ UNCHANGED <<themeVars, boundaryVars, contactVars, probe, consumer,
                   scrollVars>>

NextGitHub ==
  \/ ChangeProps
  \/ FetchEffect
  \/ MainResponse
  \/ CompareResponse

SpecGitHub == InitGitHub /\ [][NextGitHub]_vars

\* ------------------------------------------------------ consumers of the context

\* the message of the Error useTheme throws
USE_THEME_ERROR == "useTheme must be used within a ThemeProvider"

\* createContext<ThemeContextType | undefined>(undefined): the default value
undefined == <<>>

\* the value prop of ThemeContext.Provider; the three functions are
\* represented by their names
ProviderValue(t, sys) ==
  [theme |-> t,
   toggleTheme |-> "toggleTheme",
   setTheme |-> "setTheme",
   isSystemPreference |-> sys,
   resetToSystemPreference |-> "resetToSystemPreference"]

\* useContext(ThemeContext) in a component that is below the provider or
\* not: the provider's value, or the default of the context
useContext(below) ==
  IF below THEN <<ProviderValue(theme, isSystemPreference)>> ELSE undefined

\* what ThemeProvider returns: null until it is initialized, then the
\* context provider around its children
ThemeProviderRender(init) == IF init THEN "children" ELSE null

\* useTheme without the test of the context
useTheme_noCheck(context) ==
  [threw |-> FALSE, message |-> null, value |-> context]

\* useTheme() on the value useContext returned
useTheme(context) ==
  IF context = undefined
  THEN [threw |-> TRUE, message |-> USE_THEME_ERROR, value |-> undefined]
  ELSE [threw |-> FALSE, message |-> null, value |-> context]

\* a component calls useTheme() while it renders.  Below the provider a
\* component renders only once the provider is initialized (before that the
\* provider returns null).
CallUseTheme ==
  /\ \E below \in BOOLEAN :
       /\ below => /\ phase # "unmounted"
                    /\ ThemeProviderRender(isInitialized) = "children"
       /\ LET r == useTheme(useContext(below))
          IN consumer' = [called |-> TRUE, provider |-> below, threw |-> r.threw,
                          message |-> r.message, value |-> r.value]
  /\ UNCHANGED <<themeVars, boundaryVars, contactVars, probe, scrollVars,
                 githubVars>>

NextConsumer ==
  \/ Next
  \/ CallUseTheme

SpecConsumer == Init /\ [][NextConsumer]_vars

\* ------------------------------------------------------------ properties

\* the system signal as a mode
SystemSignal == IF matches THEN "dark" ELSE "light"

\* the most recent operation
LastOp == IF Len(log) = 0 THEN "none" ELSE log[Len(log)].op
LastArg == IF Len(log) = 0 THEN null ELSE log[Len(log)].arg
LastBefore == IF Len(log) = 0 THEN null ELSE log[Len(log)].before

\* the operation before the most recent one
PrevOp == IF Len(log) < 2 THEN "none" ELSE log[Len(log) - 1].op
PrevArg == IF Len(log) < 2 THEN null ELSE log[Len(log) - 1].arg
PrevBefore == IF Len(log) < 2 THEN null ELSE log[Len(log) - 1].before

\* the step in which the initialize effect calls getInitialTheme and returns
InitialThemeStep == phase = "rendered" /\ phase' = "effects"

\* C1: whatever the system signal is, when the theme key holds a value M
\* (any non-empty string) and the use-system key does not hold "true",
\* getInitialTheme returns {theme: M, isSystem: false}.
C1_ExplicitInitial ==
  [][ (/\ InitialThemeStep
       /\ localStorage[THEME_STORAGE_KEY] \notin {null, ""}
       /\ localStorage[SYSTEM_PREFERENCE_KEY] # "true")
      => pending' = [theme |-> localStorage[THEME_STORAGE_KEY], isSystem |-> FALSE] ]_vars

\* C1 witness: a stored "dark" with flag absent is returned as explicit while
\* the system signal is light
C1_Witness ==
  /\ phase = "effects"
  /\ localStorage[THEME_STORAGE_KEY] = "dark"
  /\ localStorage[SYSTEM_PREFERENCE_KEY] = null
  /\ ~matches
  /\ LastOp = "getInitialTheme"
  /\ pending = [theme |-> "dark", isSystem |-> FALSE]

\* C2: when the theme key is absent (or empty), or the use-system key holds
\* "true" (whatever the theme key holds), getInitialTheme returns
\* {theme: the system signal, isSystem: true}.
C2_SystemInitial ==
  [][ (/\ InitialThemeStep
       /\ \/ localStorage[THEME_STORAGE_KEY] \in {null, ""}
          \/ localStorage[SYSTEM_PREFERENCE_KEY] = "true")
      => pending' = [theme |-> SystemSignal, isSystem |-> TRUE] ]_vars

\* C2 witness: a stored "light" together with flag "true" and a dark system
\* signal is resolved to dark from the system
C2_Witness ==
  /\ phase = "effects"
  /\ localStorage[THEME_STORAGE_KEY] = "light"
  /\ localStorage[SYSTEM_PREFERENCE_KEY] = "true"
  /\ matches
  /\ LastOp = "getInitialTheme"
  /\ pending = [theme |-> "dark", isSystem |-> TRUE]

\* C3: once initialized, whenever isSystemPreference is true the theme is
\* the current system signal, after any sequence of signal changes, toggles
\* and resets.
C3_SystemTracksSignal ==
  (phase = "ready" /\ isSystemPreference) => theme = SystemSignal

\* C3 witness: following the system, the signal went to dark and back to
\* light, and the theme is light
C3_Witness ==
  /\ phase = "ready"
  /\ isSystemPreference
  /\ PrevOp = "change" /\ PrevArg = "dark"
  /\ LastOp = "change" /\ LastArg = "light"
  /\ theme = "light"

C5_SetThenReload ==
  LastOp = "setTheme" =>
    \A m \in BOOLEAN :
      getInitialTheme(TRUE, localStorage, m) = [theme |-> LastArg, isSystem |-> FALSE]

\* C5 witness: setTheme("dark") right after a reset (which had stored flag
\* "true"), with a light system signal
C5_Witness ==
  /\ PrevOp = "reset"
  /\ LastOp = "setTheme" /\ LastArg = "dark"
  /\ ~matches
  /\ localStorage[THEME_STORAGE_KEY] = "dark"

\* C6: after a reset the theme key is absent and the source is the system;
\* from then on, until an explicit choice, every change of the system signal
\* becomes the theme and the theme key stays absent.
C6_ResetThenLive ==
  /\ [](LastOp = "reset" =>
          /\ localStorage[THEME_STORAGE_KEY] = null
          /\ localStorage[SYSTEM_PREFERENCE_KEY] = "true"
          /\ isSystemPreference)
  /\ [][ (/\ phase = "ready"
          /\ isSystemPreference
          /\ localStorage[THEME_STORAGE_KEY] = null
          /\ localStorage[SYSTEM_PREFERENCE_KEY] = "true"
          /\ matches' # matches)
         => (/\ theme' = (IF matches' THEN "dark" ELSE "light")
             /\ isSystemPreference'
             /\ localStorage' = localStorage) ]_vars

\* C6 witness: a reset made from an explicit theme, then a signal change to
\* dark that the theme followed
C6_Witness ==
  /\ phase = "ready"
  /\ PrevOp = "reset" /\ PrevBefore = "light" /\ PrevArg = "light"
  /\ LastOp = "change" /\ LastArg = "dark"
  /\ theme = "dark"
  /\ localStorage[THEME_STORAGE_KEY] = null

\* C7: a toggle from light gives dark, explicit and persisted; two
\* consecutive toggles give back the mode (light or dark) the first started
\* from, explicit and persisted.
C7_ToggleTwice ==
  /\ (LastOp = "toggleTheme" /\ LastBefore = "light") =>
        /\ theme = "dark"
        /\ ~isSystemPreference
        /\ localStorage[THEME_STORAGE_KEY] = "dark"
        /\ localStorage[SYSTEM_PREFERENCE_KEY] = "false"
  /\ (PrevOp = "toggleTheme" /\ LastOp = "toggleTheme" /\ PrevBefore \in Theme) =>
        /\ theme = PrevBefore
        /\ ~isSystemPreference
        /\ localStorage[THEME_STORAGE_KEY] = PrevBefore
        /\ localStorage[SYSTEM_PREFERENCE_KEY] = "false"

\* C7 witness: two toggles starting from light
C7_Witness ==
  /\ PrevOp = "toggleTheme" /\ PrevBefore = "light"
  /\ LastOp = "toggleTheme" /\ LastBefore = "dark"
  /\ theme = "light"
  /\ localStorage[THEME_STORAGE_KEY] = "light"

\* C8: a toggleTheme step taken in mode M (light or dark) is a step of
\* setTheme(the other mode): same theme, source, storage keys, listener and
\* data-theme afterwards.
C8_ToggleIsSetOpposite ==
  [][ (phase = "ready" /\ theme \in Theme /\ LastOp' = "toggleTheme")
      => SetThemeBody(CHOOSE m \in Theme : m # theme) ]_vars

\* C8 witness: a toggle taken while following a dark system signal
C8_Witness ==
  /\ LastOp = "toggleTheme" /\ LastBefore = "dark" /\ LastArg = "light"
  /\ PrevOp = "initialized"
  /\ matches
  /\ theme = "light"
  /\ ~isSystemPreference
  /\ listeners = 0

C9_WitnessRemoved ==
  /\ LastOp = "toggleTheme" /\ listeners = 0

\* C10: when storage reads or writes fail no theme operation throws, and
\* with storage denied the provider still starts, from the system signal.
C10_StorageFailureNeverThrows ==
  /\ lastError = null
  /\ (storageMode = "denied" /\ LastOp = "getInitialTheme") =>
        /\ phase = "effects"
        /\ pending = [theme |-> SystemSignal, isSystem |-> TRUE]

\* C11: after resetToSystemPreference, from any state, the theme key is
\* absent, the use-system key holds "true", the source is the system and the
\* theme is the system signal read by the call.
C11_ResetPostcondition ==
  LastOp = "reset" =>
    /\ localStorage = [k \in StorageKeys |->
                         IF k = THEME_STORAGE_KEY THEN null ELSE "true"]
    /\ isSystemPreference
    /\ theme = SystemSignal
    /\ theme = LastArg

\* C11 witness: a reset made from explicit light while the system is dark
C11_Witness ==
  /\ PrevOp \in {"setTheme", "toggleTheme"} /\ PrevArg = "light"
  /\ LastOp = "reset" /\ LastBefore = "light"
  /\ matches
  /\ theme = "dark"
  /\ localStorage[THEME_STORAGE_KEY] = null

\* C12: after setTheme(M), from any state, the theme is M, the source is
\* explicit, the theme key holds M and the use-system key holds "false".
C12_SetThemePostcondition ==
  LastOp = "setTheme" =>
    /\ theme = LastArg
    /\ ~isSystemPreference
    /\ localStorage = [k \in StorageKeys |->
                         IF k = THEME_STORAGE_KEY THEN LastArg ELSE "false"]

\* C12 witness: setTheme("light") called while following a dark system
C12_Witness ==
  /\ PrevOp = "initialized"
  /\ LastOp = "setTheme" /\ LastArg = "light" /\ LastBefore = "dark"
  /\ matches
  /\ theme = "light"
  /\ localStorage[SYSTEM_PREFERENCE_KEY] = "false"

\* C13: the scenario, step by step.  With the theme key absent and a dark
\* system signal getInitialTheme returns {dark, system}, and the provider
\* initialized from an absent theme key under a dark signal shows {dark,
\* system}; a toggle taken there gives {light, explicit} with light and
\* "false" persisted; getInitialTheme on that storage returns {light,
\* explicit} for either system signal.
C13_Scenario ==
  /\ [][ (InitialThemeStep /\ localStorage[THEME_STORAGE_KEY] = null /\ matches)
         => pending' = [theme |-> "dark", isSystem |-> TRUE] ]_vars
  /\ []( (LastOp = "initialized" /\ localStorage[THEME_STORAGE_KEY] = null /\ matches)
         => (theme = "dark" /\ isSystemPreference) )
  /\ [][ (/\ phase = "ready"
          /\ theme = "dark"
          /\ isSystemPreference
          /\ localStorage[THEME_STORAGE_KEY] = null
          /\ LastOp' = "toggleTheme")
         => (/\ theme' = "light"
             /\ ~isSystemPreference'
             /\ localStorage'[THEME_STORAGE_KEY] = "light"
             /\ localStorage'[SYSTEM_PREFERENCE_KEY] = "false"
             /\ \A m \in BOOLEAN :
                  getInitialTheme(TRUE, localStorage', m)
                    = [theme |-> "light", isSystem |-> FALSE]) ]_vars

\* C13 witness: the state after the toggle of the scenario, the system
\* still dark
C13_Witness ==
  /\ PrevOp = "initialized"
  /\ LastOp = "toggleTheme" /\ LastBefore = "dark" /\ LastArg = "light"
  /\ matches
  /\ theme = "light"
  /\ ~isSystemPreference
  /\ localStorage[THEME_STORAGE_KEY] = "light"
  /\ localStorage[SYSTEM_PREFERENCE_KEY] = "false"

\* C14: the theme of an initialized provider, and the data-theme attribute
\* it writes, is light or dark, whatever string the theme key held.
C14_ModeIsLightOrDark ==
  phase = "ready" => (theme \in Theme /\ dataTheme \in Theme)

\* C15: with window undefined, getInitialTheme returns {light, system} and
\* getSystemTheme returns light, neither reads storage, neither throws.
C15_OutsideBrowser ==
  (probe.fn # "none" /\ ~probe.win) =>
    /\ probe.theme = "light"
    /\ probe.isSystem
    /\ probe.reads = {}
    /\ ~probe.threw

\* C15 witness: getInitialTheme called outside a browser while storage
\* would hold an explicit dark and the media query would match
C15_Witness ==
  /\ probe.fn = "getInitialTheme"
  /\ ~probe.win
  /\ localStorage[THEME_STORAGE_KEY] = "dark"
  /\ localStorage[SYSTEM_PREFERENCE_KEY] = "false"
  /\ matches
  /\ probe.theme = "light"
  /\ probe.isSystem

\* a step in which the network call of a submission ends and the rest of
\* handleSubmit runs
ResponseStep == inflight' < inflight

\* C16: when the network call of a submission ends, the status becomes
\* success or error (one of the two) and one reset timer is started; with the
\* access key configured, a status of success or error is always followed by
\* idle, the timers being left to fire.
C16_OutcomeThenIdle ==
  /\ [][ ResponseStep =>
           /\ status' \in {"success", "error"}
           /\ (status' = "success") # (status' = "error")
           /\ timers' = timers + 1 ]_vars
  /\ [](accessKey # "" /\ status \in {"success", "error"} => timers > 0)
  /\ ((accessKey # "" /\ status \in {"success", "error"}) ~> (status = "idle"))

\* C16 witness: a request failed, its error is shown and its timer is pending
C16_Witness ==
  /\ accessKey # ""
  /\ status = "error"
  /\ lastOutcome = "rejected"
  /\ inflight = 0
  /\ timers = 1

\* C16 witness of the other outcome and of the reset: a second request is
\* answered with success after the first one's timer has fired
C16_WitnessSuccess ==
  /\ status = "success" /\ lastOutcome = "success" /\ posts = 2 /\ timers = 1

\* C17: whenever the status is error a non-empty message is displayed and a
\* reset timer is pending, for each kind of error: rejected call, missing
\* access key, unsuccessful response.
C17_ErrorsAreTransient ==
  status = "error" =>
    /\ DisplayedError(errorMessage) # ""
    /\ timers > 0

\* C18: a fetch is made only by a submission, one per submission, and the
\* end of a call sends nothing; the status becomes success only at the end
\* of a call whose result has success = true, and the end of any other call
\* gives status error.
C18_OnePostSuccessOnlyOnTrue ==
  /\ [][ \/ posts' = posts
         \/ (/\ posts' = posts + 1
             /\ inflight' = inflight + 1
             /\ status # "submitting"
             /\ status' = "submitting") ]_vars
  /\ [][ ResponseStep => (posts' = posts /\ inflight' = inflight - 1) ]_vars
  /\ [][ (status' = "success" /\ status # "success") => ResponseStep ]_vars
  /\ [][ ResponseStep => (status' = "success" <=> lastOutcome' = "success") ]_vars
  /\ [][ (ResponseStep /\ lastOutcome' # "success") => status' = "error" ]_vars

\* C18 witness: a call answered with success: false ended in error without
\* another fetch
C18_Witness ==
  /\ lastOutcome = "failure"
  /\ status = "error"
  /\ errorMessage = "Failed to send message"
  /\ posts = 1
  /\ inflight = 0

\* C19: with no access key configured nothing is ever sent, and a submission
\* (the only step that changes the idle status) gives status error with the
\* message asking to email directly.
C19_MissingKey ==
  /\ [](accessKey = "" => (posts = 0 /\ inflight = 0 /\ timers = 0))
  /\ [][ (accessKey = "" /\ status = "idle" /\ status' # "idle") =>
           /\ status' = "error"
           /\ errorMessage' = NOT_CONFIGURED
           /\ DisplayedError(errorMessage') = NOT_CONFIGURED
           /\ formData' = formData ]_vars
  /\ [](accessKey = "" /\ status = "error" => errorMessage = NOT_CONFIGURED)

\* C19 witness: the filled form submitted without an access key
C19_Witness ==
  /\ accessKey = ""
  /\ status = "error"
  /\ errorMessage = NOT_CONFIGURED
  /\ \A f \in FormFields : formData[f] = "a"
  /\ posts = 0

\* C20: hasError is true exactly when error is non-null; what is rendered
\* is the custom fallback (when given) or the default UI while hasError is
\* true, and the children otherwise; a caught error sets hasError with the
\* error stored and takes the children down; the fallback and the stored
\* error stay through every later step except Try Again (handleReset), which
\* sets hasError false and error null, and a reload of the page, which
\* starts a new boundary.
C20_ErrorBoundary ==
  /\ [](hasError <=> error # null)
  /\ [](shown = (IF ~hasError THEN "children"
                 ELSE IF fallback THEN "fallback" ELSE "default"))
  /\ [](hasError => phase = "unmounted")
  /\ [][ (~hasError /\ hasError') => error' \in Errors ]_vars
  /\ [][ (hasError /\ LastOp' \notin {"handleReset", "handleReload"}) =>
           (hasError' /\ error' = error /\ shown' = shown) ]_vars
  /\ [][ LastOp' = "handleReset" => (~hasError' /\ error' = null) ]_vars

\* C20 witness: a render error was caught, the custom fallback is shown and
\* is still shown after a later event
C20_Witness ==
  /\ hasError
  /\ error = "RenderError"
  /\ fallback
  /\ shown = "fallback"
  /\ PrevOp = "childThrows"
  /\ LastOp = "change"

\* C20 witness of Try Again: the children are rendered again
C20_WitnessReset ==
  /\ PrevOp = "childThrows"
  /\ LastOp = "handleReset"
  /\ ~hasError
  /\ error = null
  /\ shown = "children"

\* C21: a call of useTheme() made with no provider value in the context
\* throws the Error 'useTheme must be used within a ThemeProvider'; a call
\* made below the provider does not throw and returns the provider's value:
\* the current theme and isSystemPreference and the three functions.
C21_UseTheme ==
  [][ consumer' # consumer =>
        /\ consumer'.called
        /\ ~consumer'.provider =>
             /\ consumer'.threw
             /\ consumer'.message = USE_THEME_ERROR
        /\ consumer'.provider =>
             /\ ~consumer'.threw
             /\ consumer'.value =
                  << [theme |-> theme,
                      toggleTheme |-> "toggleTheme",
                      setTheme |-> "setTheme",
                      isSystemPreference |-> isSystemPreference,
                      resetToSystemPreference |-> "resetToSystemPreference"] >> ]_vars

\* C21 witness: a call outside any provider threw, while a provider is
\* mounted and initialized elsewhere
C21_Witness ==
  /\ phase = "ready"
  /\ consumer.called
  /\ ~consumer.provider
  /\ consumer.threw
  /\ consumer.message = USE_THEME_ERROR

\* C21 witness of the other case: a call below the provider returned the
\* explicit dark theme
C21_WitnessValue ==
  /\ consumer.called
  /\ consumer.provider
  /\ ~consumer.threw
  /\ consumer.value[1].theme = "dark"
  /\ ~consumer.value[1].isSystemPreference

\* C22: a component below the provider renders (and reads the context)
\* only when isInitialized is true; a step that ends with isInitialized
\* false leaves the data-theme attribute as it was (a reload of the page
\* aside: it makes a new document); once initialized, data-theme equals the
\* theme after every step.
C22_NoFlashThenApplied ==
  /\ [][ (consumer' # consumer /\ consumer'.provider) =>
           (isInitialized /\ consumer'.value[1].theme = theme) ]_vars
  /\ [][ (~isInitialized' /\ LastOp' # "handleReload") =>
           dataTheme' = dataTheme ]_vars
  /\ [](phase \in {"rendered", "effects"} => ~isInitialized)
  /\ [](phase = "ready" => (isInitialized /\ dataTheme = theme))

\* C22 witness: before the provider is initialized, with a stored dark
\* theme read and a change of the system signal handled, nothing is written
C22_Witness ==
  /\ phase = "effects"
  /\ ~isInitialized
  /\ pending.theme = "dark"
  /\ LastOp = "change"
  /\ dataTheme = null

\* C22 witness after initialization: the attribute follows a toggle to dark
C22_WitnessApplied ==
  /\ phase = "ready"
  /\ PrevOp = "initialized" /\ PrevBefore = "light"
  /\ LastOp = "toggleTheme"
  /\ theme = "dark"
  /\ dataTheme = "dark"

\* C23: once the provider is initialized, after any operations and signal
\* changes, getInitialTheme on the storage contents returns the in-memory
\* source (isSystemPreference) and, when that source is explicit, the
\* in-memory theme.
C23_ReloadAgrees ==
  phase = "ready" =>
    LET r == getInitialTheme(TRUE, localStorage, matches)
    IN /\ r.isSystem = isSystemPreference
       /\ ~isSystemPreference => r.theme = theme

\* C24: the status leaves "submitting" only for "success" or "error", never
\* for "idle": no step taken while a request is in flight and the status is
\* "submitting" (a timer of an earlier submission among them) sets "idle".
C24_SubmittingOnlyToOutcome ==
  [][ (status = "submitting" /\ status' # "submitting") =>
        (/\ status' \in {"success", "error"}
         /\ ResponseStep) ]_vars

\* C25: at most one request is in flight at any time.
C25_OneRequestInFlight ==
  inflight <= 1

\* C26: a change of the system signal handled while the source is the
\* system sets the theme to the new signal and leaves both storage keys and
\* the source as they were; storage changes only in a step of setTheme,
\* toggleTheme or resetToSystemPreference.
C26_SignalChangeFrame ==
  /\ [][ (matches' # matches /\ phase = "ready" /\ isSystemPreference) =>
           /\ theme' = (IF matches' THEN "dark" ELSE "light")
           /\ localStorage' = localStorage
           /\ isSystemPreference' = isSystemPreference
           /\ isInitialized' = isInitialized
           /\ listeners' = listeners ]_vars
  /\ [][ matches' # matches => localStorage' = localStorage ]_vars
  /\ [][ localStorage' # localStorage =>
           LastOp' \in {"setTheme", "toggleTheme", "reset"} ]_vars

\* C26 witness: following the system with both keys absent, the signal
\* changed to dark: the theme is dark and the keys are still absent
C26_Witness ==
  /\ phase = "ready"
  /\ isSystemPreference
  /\ LastOp = "change" /\ LastArg = "dark" /\ LastBefore = "light"
  /\ theme = "dark"
  /\ localStorage = [k \in StorageKeys |-> null]

\* C27: the step that ends a submission with success sets name, email and
\* message to the empty string; a step that ends one with error (the call
\* rejected, the response unsuccessful) or that refuses it for the missing
\* access key leaves the three fields as they are; no other step but an
\* edit of the user changes a field.
C27_FieldsClearedOnSuccessOnly ==
  /\ [][ (ResponseStep /\ status' = "success") =>
           \A f \in FormFields : formData'[f] = "" ]_vars
  /\ [][ (ResponseStep /\ status' = "error") => formData' = formData ]_vars
  /\ [][ (accessKey = "" /\ status # "error" /\ status' = "error") =>
           formData' = formData ]_vars
  /\ [][ (formData' # formData /\ ~ResponseStep) =>
           (/\ \E f \in FormFields : formData' = [formData EXCEPT ![f] = formData'[f]]
            /\ status' = status) ]_vars

\* C27 witness: a call that was rejected left the filled fields in place
C27_Witness ==
  /\ status = "error"
  /\ lastOutcome = "rejected"
  /\ inflight = 0
  /\ \A f \in FormFields : formData[f] = "a"

\* C27 witness of the success path: the fields are empty after a success
C27_WitnessCleared ==
  /\ status = "success"
  /\ lastOutcome = "success"
  /\ posts = 1
  /\ formData = EmptyForm

\* C28: each of the two scroll handlers has at most one frame callback
\* pending, and one exactly while its ticking is set, however many scroll
\* events are dispatched; a frame callback sets its flag to scrollY >
\* threshold for the position at that frame; so with no scroll event left to
\* dispatch and no frame pending, isScrolled is scrollY > 20 and
\* showBackToTop is scrollY > 400.
C28_ThrottledScroll ==
  /\ [](navFrames <= 1 /\ barFrames <= 1)
  /\ [](navTicking <=> navFrames = 1)
  /\ [](barTicking <=> barFrames = 1)
  /\ [][ navFrames' < navFrames =>
           (isScrolled' = (scrollY > 20) /\ ~navTicking') ]_vars
  /\ [][ barFrames' < barFrames =>
           (showBackToTop' = (scrollY > 400) /\ ~barTicking') ]_vars
  /\ []((~scrollPending /\ navFrames = 0) => (isScrolled = (scrollY > 20)))
  /\ []((~scrollPending /\ barFrames = 0) => (showBackToTop = (scrollY > 400)))

\* C28 witness: scroll events were dispatched while the frames were pending,
\* and one frame of each handler is pending
C28_Witness ==
  /\ throttled = MaxThrottled
  /\ navFrames = 1
  /\ barFrames = 1
  /\ scrollY = 21

\* C28 witness of the settled state: after throttled events the frames have
\* run with the page past the first threshold and not past the second
C28_WitnessSettled ==
  /\ throttled > 0
  /\ ~scrollPending
  /\ navFrames = 0 /\ barFrames = 0
  /\ scrollY = 400
  /\ isScrolled
  /\ ~showBackToTop

\* a step in which a response is handled
AnswerStep == answered' # answered

\* C29: the step in which a call of fetchGitHubData finishes sets loading
\* to false, whether the call succeeded or failed; the step that handles
\* the user and events responses sets error exactly when one of the two
\* requests was rejected or not ok (and leaves error alone when both are
\* ok); the step that handles the compare responses never sets error and
\* gives every push event whose compare request failed or was rejected the
\* count 1, which is the count displayed; the events set are at most the
\* call's maxEvents.
C29_FetchOutcome ==
  /\ [][ Cardinality(fetches') < Cardinality(fetches) => ~loading' ]_vars
  /\ [][ (AnswerStep /\ answered'.stage = "main") =>
           /\ answered'.main \in {"userNotOk", "eventsNotOk", "rejected"} =>
                (githubError' = "Unable to load GitHub activity" /\ ~loading')
           /\ answered'.main = "ok" =>
                (githubError' = githubError /\ loading' = loading)
           /\ githubError' # githubError =>
                answered'.main \in {"userNotOk", "eventsNotOk", "rejected"} ]_vars
  /\ [][ (AnswerStep /\ answered'.stage = "compare") =>
           /\ githubError' = githubError
           /\ ~loading'
           /\ \A e \in DOMAIN answered'.compare :
                answered'.compare[e] \in {"notOk", "rejected"} =>
                  (commitCounts'[e] = 1 /\ getCommitCount(e, commitCounts') = 1) ]_vars
  /\ [][ events' # events =>
           (AnswerStep /\ Len(events') <= answered'.maxEvents) ]_vars

\* C29 witness: a call for alice with maxEvents 2 finished; the compare
\* request of a1 failed and that of no other event did
C29_Witness ==
  /\ answered.stage = "compare"
  /\ answered.maxEvents = 2
  /\ answered.compare = [e \in {"a1"} |-> "notOk"]
  /\ events = <<"a1", "a2">>
  /\ commitCounts = [e \in {"a1"} |-> 1]
  /\ githubError = null
  /\ ~loading
  /\ started = 1

\* C29 witness of a failed call: the events response was not ok
C29_WitnessFailed ==
  /\ answered.stage = "main"
  /\ answered.main = "eventsNotOk"
  /\ githubError = GITHUB_ERROR
  /\ ~loading
  /\ started = 1

\* C30: when no call is outstanding, what is displayed is what the latest
\* call set: its error when it failed; no error and its events, stats and
\* commit counts when it succeeded.
C30_LatestRequestWins ==
  (fetches = {} /\ ~effectDue /\ started > 0) =>
    /\ latest.id = started
    /\ IF latest.failed
       THEN githubError = GITHUB_ERROR
       ELSE /\ githubError = null
            /\ events = latest.events
            /\ stats = latest.stats
            /\ commitCounts = latest.counts

====
